---------------------------- MODULE Spec2Model ----------------------------
(***************************************************************************)
(* Employee allowance: the UserAllowance class of lib/model/user_allowance *)
(* (the calculator getters) and its static promise_allowance (the          *)
(* resolver that gathers the figures and constructs a UserAllowance).      *)
(*                                                                         *)
(* Instants.  A moment is an integer number of ticks since 00:00 UTC of    *)
(* Jan 1 of the first modelled year; a calendar day has TicksPerDay ticks  *)
(* (the millisecond resolution of moment, coarsened).  The last tick of a  *)
(* day stands for 23:59:59.999.                                            *)
(*                                                                         *)
(* Numbers.  Day figures are JavaScript numbers.  Every finite figure the  *)
(* class handles here is a multiple of half a day, so a finite number is   *)
(* kept as its count of half days: Num(56) is 28 days.  NaN and the two    *)
(* infinities are values of their own.                                     *)
(***************************************************************************)
EXTENDS Integers, Sequences, FiniteSets, TLC

VARIABLES
  self,     \* the UserAllowance instance whose getters are read
  read,     \* the last getter read on self, with the value it returned
  flow,     \* position of the promise chain of promise_allowance
  args,     \* arguments of promise_allowance after Joi.attempt
  locals,   \* the variables of promise_allowance its callbacks share
  my_leaves,\* whether user.my_leaves is defined
  calls,    \* collaborator calls and their completions, in order
  clock,    \* the current UTC instant (what moment.utc() returns)
  result    \* how the promise returned by promise_allowance settled

vars == <<self, read, flow, args, locals, my_leaves, calls, clock, result>>

None == [k |-> "undefined"]

-----------------------------------------------------------------------------
(* Bounds *)

TicksPerDay == 2
MaxClockTicks == 2

-----------------------------------------------------------------------------
(* The calendar of moment.utc *)

Years == 2019..2021

IsLeapYear(y) == (y % 4 = 0 /\ y % 100 # 0) \/ y % 400 = 0

DaysInYear(y) == IF IsLeapYear(y) THEN 366 ELSE 365

DaysInMonth(y, m) ==
  IF m = 2 THEN (IF IsLeapYear(y) THEN 29 ELSE 28)
  ELSE IF m \in {4, 6, 9, 11} THEN 30 ELSE 31

RECURSIVE DaysBeforeYear(_)
DaysBeforeYear(y) ==
  IF y <= 2019 THEN 0 ELSE DaysBeforeYear(y - 1) + DaysInYear(y - 1)

RECURSIVE DaysBeforeMonth(_, _)
DaysBeforeMonth(y, m) ==
  IF m <= 1 THEN 0 ELSE DaysBeforeMonth(y, m - 1) + DaysInMonth(y, m - 1)

\* moment.utc(<calendar date>): 00:00 UTC of day d of month m of year y
utc(y, m, d) ==
  (DaysBeforeYear(y) + DaysBeforeMonth(y, m) + (d - 1)) * TicksPerDay

\* moment#year()
year(t) ==
  CHOOSE y \in Years :
    /\ DaysBeforeYear(y) * TicksPerDay <= t
    /\ t < DaysBeforeYear(y + 1) * TicksPerDay

\* moment#startOf('year')
startOf_year(t) == DaysBeforeYear(year(t)) * TicksPerDay

\* moment#endOf('year'): the last instant of Dec 31
endOf_year(t) == DaysBeforeYear(year(t) + 1) * TicksPerDay - 1

\* a.diff(b, 'days'): whole days from b to a, truncated towards zero
diff_days(a, b) ==
  IF a >= b THEN (a - b) \div TicksPerDay
  ELSE -((b - a) \div TicksPerDay)

-----------------------------------------------------------------------------
(* JavaScript numbers *)

Num(h) == [k |-> "num", v |-> h]
NaN == [k |-> "NaN", v |-> 0]
Infinity == [k |-> "Infinity", v |-> 1]
NegInfinity == [k |-> "Infinity", v |-> -1]

IsFinite(x) == x.k = "num"

\* x + y
Plus(x, y) ==
  IF IsFinite(x) /\ IsFinite(y) THEN Num(x.v + y.v)
  ELSE IF x.k = "NaN" \/ y.k = "NaN" THEN NaN
  ELSE IF IsFinite(x) THEN y
  ELSE IF IsFinite(y) THEN x
  ELSE IF x.v = y.v THEN x ELSE NaN

\* Math.round(p / q) for integers p, q with q # 0: the nearest integer,
\* a tie going up
Math_round(p, q) ==
  IF q > 0 THEN (2 * p + q) \div (2 * q)
  ELSE (2 * (-p) + (-q)) \div (2 * (-q))

-----------------------------------------------------------------------------
(* class UserAllowance: the getters, as functions of the instance s *)

Date(t) == [k |-> "date", t |-> t]

nominal_allowance(s) == s.nominal_allowance

manual_adjustment(s) == s.manual_adjustment

carry_over(s) == s.carry_over

number_of_days_taken_from_allowance(s) == s.number_of_days_taken_from_allowance

user(s) == s.user

is_accrued_allowance(s) == user(s).department.is_accrued_allowance

\* The start of the window the year of s.now is prorated over (also the
\* start of the accrual period)
period_starts_at(s) ==
  IF year(user(s).start_date) = year(s.now)
  THEN user(s).start_date
  ELSE startOf_year(s.now)

\* The end of that window
period_ends_at(s) ==
  IF user(s).end_date # None /\ year(user(s).end_date.t) <= year(s.now)
  THEN user(s).end_date.t
  ELSE endOf_year(s.now)

\* employement_range_adjustment dividing by the length of the year of s.now
\* instead of by 365
employement_range_adjustment_by_year_length(s) ==
  IF /\ year(s.now) # year(user(s).start_date)
     /\ (user(s).end_date = None \/ year(user(s).end_date.t) > year(s.now))
  THEN 0
  ELSE -1 * (nominal_allowance(s)
             - 2 * Math_round(
                 nominal_allowance(s)
                   * diff_days(period_ends_at(s), period_starts_at(s)),
                 2 * DaysInYear(year(s.now))))

\* In half days.  nominal * days / 365 is h * days / 730 for h half days.
employement_range_adjustment(s) ==
  IF /\ year(s.now) # year(user(s).start_date)
     /\ (user(s).end_date = None \/ year(user(s).end_date.t) > year(s.now))
  THEN 0
  ELSE -1 * (nominal_allowance(s)
             - 2 * Math_round(
                 nominal_allowance(s)
                   * diff_days(period_ends_at(s), period_starts_at(s)),
                 2 * 365))

total_number_of_days_in_allowance(s) ==
  nominal_allowance(s) + carry_over(s) + manual_adjustment(s)
    + employement_range_adjustment(s)

\* A JavaScript number: the division is by zero when the period has no
\* whole day in it.
accrued_adjustment(s) ==
  LET allowance == nominal_allowance(s) + manual_adjustment(s)
                     + employement_range_adjustment(s)
      days_in_period == diff_days(period_ends_at(s), period_starts_at(s))
      left == allowance * diff_days(period_ends_at(s), s.now)
  IN  IF days_in_period # 0 THEN Num(-1 * Math_round(left, days_in_period))
      ELSE IF left = 0 THEN NaN
      ELSE IF left > 0 THEN NegInfinity
      ELSE Infinity

\* number_of_days_available_in_allowance answering 0 in the start year too
number_of_days_available_from_next_year(s) ==
  IF year(user(s).start_date) >= year(s.now)
  THEN Num(0)
  ELSE Plus(Num(total_number_of_days_in_allowance(s)
                  - number_of_days_taken_from_allowance(s)),
            IF is_accrued_allowance(s) THEN accrued_adjustment(s) ELSE Num(0))

number_of_days_available_in_allowance(s) ==
  IF year(user(s).start_date) > year(s.now)
  THEN Num(0)
  ELSE Plus(Num(total_number_of_days_in_allowance(s)
                  - number_of_days_taken_from_allowance(s)),
            IF is_accrued_allowance(s) THEN accrued_adjustment(s) ELSE Num(0))

-----------------------------------------------------------------------------
(* The instances the getters are read on *)

SampleDays(y) == {utc(y, 1, 1), utc(y, 7, 1), utc(y, 12, 31)}

StartDates == UNION {SampleDays(y) : y \in {2019, 2020}}

EndDates == {None} \cup {Date(t) : t \in UNION {SampleDays(y) : y \in Years}}

\* 00:00 and the last instant of each sample day
Nows ==
  UNION {{t, t + TicksPerDay - 1} : t \in UNION {SampleDays(y) : y \in {2019, 2020}}}

\* In half days: 0, 20.5, 28 and 183 days
NominalAllowances == {0, 41, 56, 366}

\* In half days: -30, 0 and 1.5 days
ManualAdjustments == {-60, 0, 3}

CarryOvers == {0, 4}

DaysTaken == {0, 5}

Users ==
  [start_date : StartDates, end_date : EndDates,
   department : [is_accrued_allowance : BOOLEAN]]

\* new UserAllowance(args): the fields the constructor stores
UserAllowance(u, taken, manual, carried, nominal, now) ==
  [user |-> u,
   number_of_days_taken_from_allowance |-> taken,
   manual_adjustment |-> manual,
   carry_over |-> carried,
   nominal_allowance |-> nominal,
   now |-> now]

Unread == [getter |-> "none", value |-> Num(0)]

Idle ==
  /\ flow = "idle"
  /\ args = None
  /\ locals = None
  /\ my_leaves = FALSE
  /\ calls = <<>>
  /\ clock = 0
  /\ result = None

Init ==
  /\ \E u \in Users, taken \in DaysTaken, manual \in ManualAdjustments,
        carried \in CarryOvers, nominal \in NominalAllowances, now \in Nows :
       self = UserAllowance(u, taken, manual, carried, nominal, now)
  /\ read = Unread
  /\ Idle

Get(name, value) ==
  /\ read' = [getter |-> name, value |-> value]
  /\ UNCHANGED <<self, flow, args, locals, my_leaves, calls, clock, result>>

get_employement_range_adjustment ==
  Get("employement_range_adjustment", Num(employement_range_adjustment(self)))

get_total_number_of_days_in_allowance ==
  Get("total_number_of_days_in_allowance",
      Num(total_number_of_days_in_allowance(self)))

get_accrued_adjustment ==
  Get("accrued_adjustment", accrued_adjustment(self))

get_number_of_days_available_in_allowance ==
  Get("number_of_days_available_in_allowance",
      number_of_days_available_in_allowance(self))

Next ==
  \/ get_employement_range_adjustment
  \/ get_total_number_of_days_in_allowance
  \/ get_accrued_adjustment
  \/ get_number_of_days_available_in_allowance

Spec == Init /\ [][Next]_vars

-----------------------------------------------------------------------------
(* static promise_allowance(args): one call, from the validation of the    *)
(* arguments to the settling of the promise it returns.  Each callback of  *)
(* the chain is an action; the clock may advance between callbacks.        *)

Undefined == [k |-> "undefined", t |-> 0]

\* What a caller passes; args keeps, next to the validated arguments, what
\* the call found: whether now was passed (now_supplied), user.my_leaves
\* (my_leaves) and the instant of the call (called_at)
SuppliedYears ==
  {Undefined, Date(utc(2019, 7, 1)), Date(utc(2020, 7, 1)), Date(utc(2021, 1, 1))}

SuppliedNows == {Undefined, Date(utc(2019, 12, 31)), Date(utc(2020, 7, 1) + 1)}

SuppliedForceNow == {"undefined", "true", "false"}

FlowUsers ==
  [start_date : {utc(2019, 7, 1)}, end_date : {None},
   department : [is_accrued_allowance : {FALSE}, allowance : {40, 56}]]

\* What the collaborators answer, in half days
Adjustments == {0, 3}

CarriedOver == {0, 4}

\* The last instant of 2019, and an instant in the middle of 2020
ClockStarts == {utc(2020, 1, 1) - 1, utc(2020, 7, 1)}

STEP_RELOAD == "reload_with_leave_details"
STEP_ADJUSTMENT == "promise_adjustment_and_carry_over_for_year"
STEP_TAKEN == "calculate_number_of_days_taken_from_allowance"

Event(step, ev) == [step |-> step, ev |-> ev]

InitFlow ==
  /\ self = None
  /\ read = Unread
  /\ flow = "idle"
  /\ args = None
  /\ locals = None
  /\ my_leaves \in BOOLEAN
  /\ calls = <<>>
  /\ clock \in ClockStarts
  /\ result = None

\* schema_year, schema_now: a value that is absent defaults to moment.utc()
default_utc(supplied) == IF supplied = Undefined THEN clock ELSE supplied.t

\* user.my_leaves === undefined
reload_always == TRUE

reload_needed == ~ my_leaves

\* Joi.attempt throws: promise_allowance throws before any promise is made
promise_allowance_invalid ==
  /\ flow = "idle"
  /\ flow' = "settled"
  /\ result' = [k |-> "thrown", error |-> "ValidationError"]
  /\ UNCHANGED <<self, read, args, locals, my_leaves, calls, clock>>

\* The synchronous part of promise_allowance: validation and defaults, and
\* the chain of callbacks
promise_allowance ==
  /\ flow = "idle"
  /\ \E u \in FlowUsers, y \in SuppliedYears, n \in SuppliedNows,
        f \in SuppliedForceNow :
       args' = [user |-> u,
                my_leaves |-> my_leaves,
                year |-> Date(default_utc(y)),
                now |-> Date(default_utc(n)),
                now_supplied |-> (n # Undefined),
                forceNow |-> (f = "true"),
                called_at |-> clock]
  /\ locals' = [manual_adjustment |-> 0,
                carried_over_allowance |-> 0,
                number_of_days_taken_from_allowance |-> 0]
  /\ flow' = IF reload_needed THEN "reload" ELSE "adjustment"
  /\ UNCHANGED <<self, read, my_leaves, calls, clock, result>>

\* A callback fails: the chain has no rejection handler, so the promise
\* promise_allowance returned rejects with the failure and no later callback
\* runs
swallow(step, next) ==
  /\ flow' = next
  /\ UNCHANGED result

reject(step, next) ==
  /\ flow' = "settled"
  /\ result' = [k |-> "rejected", error |-> step]

\* () => user.reload_with_leave_details({ year })
call_reload_with_leave_details ==
  /\ flow = "reload"
  /\ calls' = Append(calls, Event(STEP_RELOAD, "call"))
  /\ flow' = "reload_pending"
  /\ UNCHANGED <<self, read, args, locals, my_leaves, clock, result>>

reload_with_leave_details_fulfilled ==
  /\ flow = "reload_pending"
  /\ calls' = Append(calls, Event(STEP_RELOAD, "fulfilled"))
  /\ my_leaves' = TRUE
  /\ flow' = "adjustment"
  /\ UNCHANGED <<self, read, args, locals, clock, result>>

reload_with_leave_details_rejected ==
  /\ flow = "reload_pending"
  /\ calls' = Append(calls, Event(STEP_RELOAD, "rejected"))
  /\ reject(STEP_RELOAD, "adjustment")
  /\ UNCHANGED <<self, read, args, locals, my_leaves, clock>>

\* () => user.promise_adjustment_and_carry_over_for_year(year)
call_promise_adjustment_and_carry_over_for_year ==
  /\ flow = "adjustment"
  /\ calls' = Append(calls, Event(STEP_ADJUSTMENT, "call"))
  /\ flow' = "adjustment_pending"
  /\ UNCHANGED <<self, read, args, locals, my_leaves, clock, result>>

\* adjustment_and_coa => { ... }
promise_adjustment_and_carry_over_for_year_fulfilled ==
  /\ flow = "adjustment_pending"
  /\ calls' = Append(calls, Event(STEP_ADJUSTMENT, "fulfilled"))
  /\ \E adjustment \in Adjustments, carried \in CarriedOver :
       locals' = [locals EXCEPT !.manual_adjustment = adjustment,
                                !.carried_over_allowance = carried]
  /\ flow' = "taken"
  /\ UNCHANGED <<self, read, args, my_leaves, clock, result>>

promise_adjustment_and_carry_over_for_year_rejected ==
  /\ flow = "adjustment_pending"
  /\ calls' = Append(calls, Event(STEP_ADJUSTMENT, "rejected"))
  /\ reject(STEP_ADJUSTMENT, "taken")
  /\ UNCHANGED <<self, read, args, locals, my_leaves, clock>>

\* () => Promise.resolve(number_of_days_taken_from_allowance = user.calc...)
\* The call is synchronous: it returns or throws within the callback.
calculate_number_of_days_taken_from_allowance ==
  /\ flow = "taken"
  /\ calls' = calls \o <<Event(STEP_TAKEN, "call"), Event(STEP_TAKEN, "fulfilled")>>
  /\ \E taken \in DaysTaken :
       locals' = [locals EXCEPT !.number_of_days_taken_from_allowance = taken]
  /\ flow' = "construct"
  /\ UNCHANGED <<self, read, args, my_leaves, clock, result>>

calculate_number_of_days_taken_from_allowance_throws ==
  /\ flow = "taken"
  /\ calls' = calls \o <<Event(STEP_TAKEN, "call"), Event(STEP_TAKEN, "rejected")>>
  /\ reject(STEP_TAKEN, "construct")
  /\ UNCHANGED <<self, read, args, locals, my_leaves, clock>>

\* The now the last callback gives the constructor; left out, schema_now
\* of the constructor defaults it to moment.utc()
resolved_now ==
  IF args.forceNow /\ args.now # Undefined
  THEN args.now.t
  ELSE IF args.year # Undefined /\ year(args.year.t) # year(clock)
  THEN startOf_year(args.year.t)
  ELSE clock

\* The last callback: () => { ...; return new UserAllowance(args) }
construct_UserAllowance ==
  /\ flow = "construct"
  /\ self' = UserAllowance(args.user,
                           locals.number_of_days_taken_from_allowance,
                           locals.manual_adjustment,
                           locals.carried_over_allowance,
                           args.user.department.allowance,
                           resolved_now)
  /\ result' = [k |-> "fulfilled", error |-> "none"]
  /\ flow' = "settled"
  /\ UNCHANGED <<read, args, locals, my_leaves, calls, clock>>

\* Time passes while the promise is pending
Tick ==
  /\ flow \notin {"idle", "settled"}
  /\ \E c0 \in ClockStarts : c0 <= clock /\ clock < c0 + MaxClockTicks
  /\ clock' = clock + 1
  /\ UNCHANGED <<self, read, flow, args, locals, my_leaves, calls, result>>

NextFlow ==
  \/ promise_allowance_invalid
  \/ promise_allowance
  \/ call_reload_with_leave_details
  \/ reload_with_leave_details_fulfilled
  \/ reload_with_leave_details_rejected
  \/ call_promise_adjustment_and_carry_over_for_year
  \/ promise_adjustment_and_carry_over_for_year_fulfilled
  \/ promise_adjustment_and_carry_over_for_year_rejected
  \/ calculate_number_of_days_taken_from_allowance
  \/ calculate_number_of_days_taken_from_allowance_throws
  \/ construct_UserAllowance
  \/ Tick

SpecFlow == InitFlow /\ [][NextFlow]_vars

-----------------------------------------------------------------------------
(* Properties of the getters *)

DayOf(t) == t \div TicksPerDay

Dec31(y) == DaysBeforeYear(y + 1) - 1

\* The employment covers the whole year of s.now
FullYear(s) ==
  /\ user(s).start_date <= startOf_year(s.now)
  /\ (user(s).end_date = None \/ user(s).end_date.t > endOf_year(s.now))

\* The calendar days the claims count between: the effective start and end
EffectiveStartDay(s) ==
  IF year(user(s).start_date) = year(s.now)
  THEN DayOf(user(s).start_date)
  ELSE DaysBeforeYear(year(s.now))

EffectiveEndDay(s) ==
  IF user(s).end_date # None /\ year(user(s).end_date.t) <= year(s.now)
  THEN DayOf(user(s).end_date.t)
  ELSE Dec31(year(s.now))

ProrationApplies(s) ==
  ~ (/\ year(user(s).start_date) # year(s.now)
     /\ (user(s).end_date = None \/ year(user(s).end_date.t) > year(s.now)))

LessEq(x, y) == IsFinite(x) /\ IsFinite(y) /\ x.v <= y.v

\* C1: employement_range_adjustment is 0 whenever the employment covers the
\* whole year of now (start_date on or before Jan 1 of that year, end_date
\* absent or after the year's end), for every nominal_allowance, a
\* start_date of exactly Jan 1 included.
C1_FullYearNoAdjustment ==
  (read.getter = "employement_range_adjustment" /\ FullYear(self))
    => read.value = Num(0)

\* C3: when the accrual period has no days (effective start and effective
\* end on the same calendar day), accrued_adjustment is the number 0, and
\* number_of_days_available_in_allowance of an accrual-based department is
\* a finite number.
C3_ZeroSpanFallback ==
  EffectiveStartDay(self) = EffectiveEndDay(self)
    => /\ read.getter = "accrued_adjustment" => read.value = Num(0)
       /\ (/\ read.getter = "number_of_days_available_in_allowance"
           /\ is_accrued_allowance(self))
            => IsFinite(read.value)

\* C4: accrued_adjustment is 0 when now is the effective period end, and
\* for two instants now1 < now2 of the same period
\* accrued_adjustment(now1) <= accrued_adjustment(now2) <= 0.
C4_AccruedMonotone ==
  read.getter = "accrued_adjustment"
    => /\ self.now = period_ends_at(self) => read.value = Num(0)
       /\ \A now1 \in Nows :
            (/\ year(now1) = year(self.now)
             /\ period_starts_at(self) <= now1
             /\ now1 < self.now
             /\ self.now <= period_ends_at(self))
              => /\ LessEq(accrued_adjustment([self EXCEPT !.now = now1]),
                           read.value)
                 /\ LessEq(read.value, Num(0))

\* C5: number_of_days_available_in_allowance is 0 whenever the year of now
\* is before the year of start_date, whatever the other fields; otherwise
\* it is total_number_of_days_in_allowance minus the days taken plus
\* accrued_adjustment when the department accrues.
C5_AvailableDays ==
  read.getter = "number_of_days_available_in_allowance"
    => IF year(self.now) < year(self.user.start_date)
       THEN read.value = Num(0)
       ELSE read.value =
              Plus(Num(self.nominal_allowance + self.carry_over
                         + self.manual_adjustment
                         + employement_range_adjustment(self)
                         - self.number_of_days_taken_from_allowance),
                   IF self.user.department.is_accrued_allowance
                   THEN accrued_adjustment(self) ELSE Num(0))

C5_Witness ==
  /\ read.getter = "number_of_days_available_in_allowance"
  /\ year(self.now) < year(self.user.start_date)
  /\ self.nominal_allowance > 0
  /\ self.carry_over > 0
  /\ self.user.department.is_accrued_allowance
  /\ self.user.end_date # None
  /\ read.value = Num(0)

\* C6: when proration applies, employement_range_adjustment is
\* -(nominal - round(nominal * D / 365)), D the calendar days from the
\* effective start to the effective end, 365 also in leap years; 28 days
\* from July 1 with no end_date, read on Dec 31, give exactly -14.
\* (In half days h and v: v = -(h - 2r) with r the integer nearest to
\* h * D / 730, a tie going up.)
C6_Proration ==
  (read.getter = "employement_range_adjustment" /\ ProrationApplies(self))
    => LET h == self.nominal_allowance
           D == EffectiveEndDay(self) - EffectiveStartDay(self)
           v == read.value.v
           r == (h + v) \div 2
       IN  /\ IsFinite(read.value)
           /\ (h + v) % 2 = 0
           /\ 1460 * r <= 2 * h * D + 730
           /\ 2 * h * D + 730 < 1460 * (r + 1)
           /\ (/\ h = 56
               /\ self.user.start_date = utc(year(self.now), 7, 1)
               /\ self.user.end_date = None
               /\ DayOf(self.now) = Dec31(year(self.now)))
                => v = -28

C6_Witness ==
  /\ read.getter = "employement_range_adjustment"
  /\ self.nominal_allowance = 56
  /\ IsLeapYear(year(self.now))
  /\ self.user.start_date = utc(year(self.now), 7, 1)
  /\ self.user.end_date = None
  /\ DayOf(self.now) = Dec31(year(self.now))
  /\ read.value = Num(-28)

\* C7: for an employee employed for the whole year of now, with no manual
\* adjustment, no carry over and a department that does not accrue,
\* number_of_days_available_in_allowance is nominal_allowance minus the
\* days taken.
C7_FullYearAvailable ==
  (/\ read.getter = "number_of_days_available_in_allowance"
   /\ FullYear(self)
   /\ self.manual_adjustment = 0
   /\ self.carry_over = 0
   /\ ~ is_accrued_allowance(self))
    => read.value = Num(self.nominal_allowance
                          - self.number_of_days_taken_from_allowance)

\* C10: with nominal_allowance >= 0 and start_date not after end_date,
\* employement_range_adjustment lies between -nominal_allowance and 0, an
\* end_date in a year before the year of now included.
C10_AdjustmentInRange ==
  (/\ read.getter = "employement_range_adjustment"
   /\ self.nominal_allowance >= 0
   /\ (self.user.end_date = None
         \/ self.user.start_date <= self.user.end_date.t))
    => /\ LessEq(Num(-1 * self.nominal_allowance), read.value)
       /\ LessEq(read.value, Num(0))

-----------------------------------------------------------------------------
(* Properties of promise_allowance *)

Calls(step, ev) == {i \in 1..Len(calls) : calls[i] = Event(step, ev)}

\* The calls of a run in which every step succeeds
ExpectedCalls ==
  (IF args.my_leaves THEN <<>>
   ELSE <<Event(STEP_RELOAD, "call"), Event(STEP_RELOAD, "fulfilled")>>)
  \o <<Event(STEP_ADJUSTMENT, "call"), Event(STEP_ADJUSTMENT, "fulfilled"),
       Event(STEP_TAKEN, "call"), Event(STEP_TAKEN, "fulfilled")>>

\* C2: the constructor gets the caller's now when forceNow is true and the
\* caller passed now; otherwise the start of year when year is not the
\* current year (also when forceNow is true and no now was passed);
\* otherwise none, and the instance takes the current instant.
C2_EvaluationInstant ==
  result.k = "fulfilled"
    => IF args.forceNow /\ args.now_supplied
       THEN self.now = args.now.t
       ELSE IF year(args.year.t) # year(clock)
       THEN self.now = startOf_year(args.year.t)
       ELSE args.called_at <= self.now /\ self.now <= clock

\* C8: when reload_with_leave_details, promise_adjustment_and_carry_over_
\* for_year or calculate_number_of_days_taken_from_allowance fails, the
\* promise rejects with that failure, no later step is called, no
\* UserAllowance is constructed, and the failed step is not called again.
C8_FailureAborts ==
  \A i \in 1..Len(calls) :
    calls[i].ev = "rejected"
      => /\ i = Len(calls)
         /\ flow = "settled"
         /\ result = [k |-> "rejected", error |-> calls[i].step]
         /\ self = None
         /\ Cardinality(Calls(calls[i].step, "call")) = 1

C8_Witness ==
  /\ Len(calls) = 4
  /\ calls[2] = Event(STEP_RELOAD, "fulfilled")
  /\ calls[4] = Event(STEP_ADJUSTMENT, "rejected")
  /\ result = [k |-> "rejected", error |-> STEP_ADJUSTMENT]
  /\ clock \notin ClockStarts

\* C9 as stated: in every run (that passed the validation) the steps are
\* reload_with_leave_details at most once (never when my_leaves was loaded,
\* once and first when not), promise_adjustment_and_carry_over_for_year
\* exactly once, calculate_number_of_days_taken_from_allowance exactly
\* once, then the construction, each after the previous one completed.
C9_EveryRunAllSteps ==
  (flow = "settled" /\ args # None)
    => /\ calls = ExpectedCalls
       /\ self # None

\* C9 amended: the calls of a run are, in this order and each after the
\* previous one completed, reload_with_leave_details (never when my_leaves
\* was loaded, once and first when not), promise_adjustment_and_carry_over_
\* for_year, calculate_number_of_days_taken_from_allowance, each at most
\* once, a failed step ending them; the UserAllowance is constructed only
\* after all of them, and a run in which no step fails makes each exactly
\* once.
C9_Sequenced ==
  args # None
    => /\ Len(calls) <= Len(ExpectedCalls)
       /\ \A i \in 1..Len(calls) :
            \/ calls[i] = ExpectedCalls[i]
            \/ /\ i = Len(calls)
               /\ calls[i] = Event(ExpectedCalls[i].step, "rejected")
               /\ ExpectedCalls[i].ev = "fulfilled"
       /\ self # None => calls = ExpectedCalls
       /\ (flow = "settled" /\ Calls(STEP_RELOAD, "rejected") = {}
             /\ Calls(STEP_ADJUSTMENT, "rejected") = {}
             /\ Calls(STEP_TAKEN, "rejected") = {})
            => calls = ExpectedCalls /\ self # None
       /\ (flow \notin {"reload", "idle"} /\ ~ args.my_leaves)
            => Cardinality(Calls(STEP_RELOAD, "call")) = 1

C9_Witness ==
  /\ result.k = "fulfilled"
  /\ ~ args.my_leaves
  /\ Len(calls) = 6
  /\ self # None

=============================================================================
